---- MODULE Spec2Model ----
(***************************************************************************)
(* A model of src/app.py: the Flask handler send_message of                *)
(* POST /sendMessage, its helpers check_request_frequency,                 *)
(* detect_suspicious_pattern and send_telegram_notification, and the       *)
(* module-level state they share (request_counter, client,                 *)
(* VECTOR_STORE_IDS, mongo_collection, the telegram settings).             *)
(*                                                                         *)
(* Requests are served by threads (Flask's app.run serves each request on  *)
(* a thread of its own).  A request's handler is cut into steps at the     *)
(* places where it touches request_counter, the one structure that         *)
(* requests share: the statements of check_request_frequency are separate  *)
(* steps, the rest of the handler, which works on the request's own        *)
(* values, is one step.                                                    *)
(*                                                                         *)
(* Text is kept run-length encoded: a string is a sequence of runs         *)
(* [c |-> character, n |-> count] in which neighbouring runs differ in c   *)
(* and every n is positive, so that the lengths the code compares with     *)
(* (5000, 1000) are the code's own.  The Korean texts of the source are    *)
(* given by ASCII names.                                                   *)
(***************************************************************************)
EXTENDS Integers, Sequences, FiniteSets, TLC

(***************************************************************************)
(* Text.                                                                   *)
(***************************************************************************)
R(c, n) == [c |-> c, n |-> n]

\* len(s)
RECURSIVE StrLen(_)
StrLen(s) == IF s = <<>> THEN 0 ELSE s[1].n + StrLen(Tail(s))

\* s[:k]
RECURSIVE Take(_, _)
Take(s, k) ==
    IF k <= 0 \/ s = <<>> THEN <<>>
    ELSE IF s[1].n <= k THEN <<s[1]>> \o Take(Tail(s), k - s[1].n)
    ELSE <<R(s[1].c, k)>>

\* the characters str.strip() removes (those the inputs of the model use)
Whitespace == {" ", "\n", "\t"}

\* s.strip() == ""
StripIsEmpty(s) == \A i \in 1..Len(s) : s[i].c \in Whitespace

\* the ASCII lower-casing that re.IGNORECASE applies
LowerChar(c) ==
    CASE c = "U" -> "u" [] c = "N" -> "n" [] c = "I" -> "i" [] c = "O" -> "o"
      [] c = "S" -> "s" [] c = "E" -> "e" [] c = "L" -> "l" [] c = "C" -> "c"
      [] c = "T" -> "t" [] OTHER -> c

\* s.lower(), with runs that have become equal joined
RECURSIVE Lower(_)
Lower(s) ==
    IF s = <<>> THEN <<>>
    ELSE LET rest == Lower(Tail(s))
             c    == LowerChar(s[1].c)
         IN  IF rest # <<>> /\ rest[1].c = c
             THEN <<R(c, s[1].n + rest[1].n)>> \o Tail(rest)
             ELSE <<R(c, s[1].n)>> \o rest

\* the literal p occurs in s with its first character in run i: the first and
\* the last run of p may be part of a longer run of s, the inner ones are whole
MatchAt(s, p, i) ==
    /\ i >= 1
    /\ i + Len(p) - 1 <= Len(s)
    /\ \A j \in 1..Len(p) :
          /\ s[i + j - 1].c = p[j].c
          /\ IF j = 1 \/ j = Len(p)
             THEN s[i + j - 1].n >= p[j].n
             ELSE s[i + j - 1].n = p[j].n

\* re.search of a literal
Contains(s, p) == \E i \in 1..Len(s) : MatchAt(s, p, i)

\* re.search(a + '.*' + b, s): '.' matches every character but the newline
ContainsThen(s, a, b) ==
    \E i \in 1..Len(s) : \E j \in 1..Len(s) :
        /\ MatchAt(s, a, i)
        /\ MatchAt(s, b, j)
        /\ j >= i + Len(a)
        /\ \A k \in (i + Len(a))..(j - 1) : s[k].c # "\n"

LitScript == <<R("<", 1), R("s", 1), R("c", 1), R("r", 1), R("i", 1), R("p", 1), R("t", 1)>>
LitUnion  == <<R("u", 1), R("n", 1), R("i", 1), R("o", 1), R("n", 1)>>
LitSelect == <<R("s", 1), R("e", 1), R("l", 1), R("e", 1), R("c", 1), R("t", 1)>>
LitExec   == <<R("e", 1), R("x", 1), R("e", 1), R("c", 1), R("(", 1)>>
LitEval   == <<R("e", 1), R("v", 1), R("a", 1), R("l", 1), R("(", 1)>>
LitDotDot == <<R(".", 2), R("/", 1)>>
LitPasswd == <<R("/", 1), R("e", 1), R("t", 1), R("c", 1), R("/", 1), R("p", 1),
               R("a", 1), R("s", 2), R("w", 1), R("d", 1)>>

\* detect_suspicious_pattern(text): the description of the first pattern, in
\* the declared order, that the text matches; "none" for None
detect_suspicious_pattern(text) ==
    IF text = <<>> THEN "none"
    ELSE IF Contains(text, LitScript) THEN "script tag attempt"
    ELSE IF ContainsThen(Lower(text), LitUnion, LitSelect) THEN "SQL injection attempt"
    ELSE IF Contains(text, LitExec) \/ Contains(text, LitEval) THEN "code execution attempt"
    ELSE IF Contains(text, LitDotDot) THEN "path traversal attempt"
    ELSE IF Contains(text, LitPasswd) THEN "system file access attempt"
    ELSE "none"

(***************************************************************************)
(* JSON values, as flask's request.get_json and dict.get hand them to the  *)
(* handler.  t is "absent" (the key is missing: dict.get gives None),      *)
(* "null", "str" (s is the text), "num" (n is the number; it stands for    *)
(* every value that is neither a string nor null) or "uuid" (the text of   *)
(* the n-th uuid.uuid4() of the process).                                  *)
(***************************************************************************)
J(t, s, n) == [t |-> t, s |-> s, n |-> n]
JAbsent    == J("absent", <<>>, 0)
JNull      == J("null", <<>>, 0)
JStr(s)    == J("str", s, 0)
JNum(n)    == J("num", <<>>, n)
\* str(uuid.uuid4()): uuid4 is taken to give a value it has not given before
Uuid(k)    == J("uuid", <<>>, k)

\* Python's truth value of v, as the operator `or` uses it
Truthy(v) ==
    \/ v.t = "str" /\ v.s # <<>>
    \/ v.t = "num" /\ v.n # 0
    \/ v.t = "uuid"

\* a or b
Or(a, b) == IF Truthy(a) THEN a ELSE b

(***************************************************************************)
(* Program constants.                                                      *)
(***************************************************************************)
Threshold        == 10
WindowSeconds    == 60
LongMessageLimit == 5000
ModelInputLimit  == 1000

(***************************************************************************)
(* The model's bounds.                                                     *)
(***************************************************************************)
\* requests received in a behaviour of Spec, of RateSpec and of SeqSpec
MaxRequests  == 2
RateRequests == 11
SeqRequests  == 12

\* the threads that serve requests
Threads == {"t1", "t2"}
\* the client addresses get_client_ip yields
IPs == {"10.0.0.1", "10.0.0.2"}

VARIABLES
    request_counter,   \* client address -> the list of its requests' times
    clock,             \* what datetime.now() returns, in seconds
    uuids,             \* how many uuid.uuid4() values the process has drawn
    client,            \* the OpenAI client is set (client is not None)
    vector_store_ids,  \* VECTOR_STORE_IDS is not empty
    mongo_collection,  \* mongo_collection is not None
    telegram,          \* telegram_bot_token and telegram_chat_id are set
    th,                \* thread -> the request it serves: its place and locals
    received,          \* how many requests have been received
    arrivals           \* client address -> how many of its requests have come

vars == <<request_counter, clock, uuids, client, vector_store_ids,
          mongo_collection, telegram, th, received, arrivals>>

config == <<client, vector_store_ids, mongo_collection, telegram>>

(***************************************************************************)
(* What a request brings, and what the collaborators do with it.           *)
(***************************************************************************)
\* the headers and the peer address get_client_ip reads; x_forwarded_for is
\* the header's comma-separated list
Peer(xff, xreal, remote) == [x_forwarded_for |-> xff, x_real_ip |-> xreal, remote_addr |-> remote]

get_client_ip(h) ==
    IF h.x_forwarded_for # <<>> THEN h.x_forwarded_for[1]
    ELSE IF h.x_real_ip # "" THEN h.x_real_ip
    ELSE h.remote_addr

\* a request body: kind is "invalid" (it does not parse), "null" (the JSON
\* null), "other" (a JSON array, number, string or boolean) or "object"
Body(kind, message, conversation_id) ==
    [kind |-> kind, message |-> message, conversation_id |-> conversation_id]

JsonType == "application/json"

\* the model call's outcomes: output_text comes back, openai.OpenAIError is
\* raised (a timeout is one), or another exception is raised
ModelOutcomes == {"ok", "openai_error", "other_exception"}
\* insert_one's outcomes: done, a pymongo PyMongoError, another exception
MongoOutcomes == {"ok", "pymongo_error", "other_exception"}
\* requests.post and raise_for_status: done, requests.RequestException,
\* another exception
TelegramOutcomes == {"ok", "request_exception", "other_exception"}

\* response.output_text
AiResponse == <<R("o", 1), R("k", 1)>>

(***************************************************************************)
(* What a request leaves behind.                                           *)
(***************************************************************************)
\* jsonify(...), status
Resp(status, ok, error, response, session_id, conversation_id) ==
    [status |-> status, ok |-> ok, error |-> error, response |-> response,
     session_id |-> session_id, conversation_id |-> conversation_id]

ErrorResp(status, error) == Resp(status, FALSE, error, <<>>, JAbsent, JAbsent)

\* the document handed to mongo_collection.insert_one (its time field is left out)
Doc(session_id, conversation_id, message, response) ==
    [session_id |-> session_id, conversation_id |-> conversation_id,
     user |-> "guest", message |-> message, response |-> response]
NoDoc == Doc(JAbsent, JAbsent, <<>>, <<>>)

\* the arguments of send_telegram_notification
Note(user_message, ai_response, session_id) ==
    [user_message |-> user_message, ai_response |-> ai_response, session_id |-> session_id]
NoNote == Note(<<>>, <<>>, JAbsent)

\* a line of the operational log
Log(level, what) == [level |-> level, what |-> what]

\* what the handler has done when it returns: the response, the security
\* events and operational log lines it added, the uuids it drew, whether it
\* called the model and with which text, and what became of the save and of
\* the notification ("no": not reached, "skipped": not configured, "saved" or
\* "sent", "failed") with the document and the arguments handed over
Out(resp, sec, op, minted, asked, model_input, saved, doc, notified, note) ==
    [resp |-> resp, sec |-> sec, op |-> op, minted |-> minted,
     asked |-> asked, model_input |-> model_input,
     saved |-> saved, doc |-> doc, notified |-> notified, note |-> note]

\* a return before the model is called
Early(resp, sec, op, minted) ==
    Out(resp, sec, op, minted, FALSE, <<>>, "no", NoDoc, "no", NoNote)

\* except Exception at the end of send_message
Unexpected(sec, op, minted, asked, model_input, saved, doc) ==
    Out(ErrorResp(500, "Internal server error"), sec,
        op \o <<Log("error", "unexpected error")>>, minted,
        asked, model_input, saved, doc, "no", NoNote)

(***************************************************************************)
(* send_message from its Content-Type check on, bottom up.  The security   *)
(* events are named by their texts; "normal request" is the one of level   *)
(* info, the others are warnings.                                          *)
(***************************************************************************)
\* send_telegram_notification: what became of the notification and the lines
\* it logs; whatever requests.post raises is caught inside
send_telegram_notification(outcome) ==
    IF ~telegram
    THEN [state |-> "skipped", op |-> <<Log("warning", "no telegram settings")>>]
    ELSE IF outcome = "ok"
    THEN [state |-> "sent", op |-> <<Log("info", "telegram notification sent")>>]
    ELSE IF outcome = "request_exception"
    THEN [state |-> "failed", op |-> <<Log("error", "telegram notification failed")>>]
    ELSE [state |-> "failed", op |-> <<Log("error", "telegram notification unexpected error")>>]

\* ModelInput without the cut
ModelInputWhole(message) == message

\* the text given to the model: message[:1000]
ModelInput(message) == Take(message, ModelInputLimit)

\* after response.output_text: the save, the notification, the 200
AfterModel(session_id, conversation_id, message, sec, op, minted, mongo, tg) ==
    LET doc  == Doc(session_id, conversation_id, message, AiResponse)
        op1  == op \o <<Log("info", "ai response done")>>
        note == Note(message, AiResponse, session_id)
        sent == send_telegram_notification(tg)
    IN  IF ~mongo_collection
        THEN Out(Resp(200, TRUE, "", AiResponse, session_id, conversation_id), sec,
                 op1 \o <<Log("warning", "no mongo collection")>>  \o sent.op, minted,
                 TRUE, ModelInput(message), "skipped", NoDoc, sent.state, note)
        ELSE IF mongo = "ok"
        THEN Out(Resp(200, TRUE, "", AiResponse, session_id, conversation_id), sec,
                 op1 \o <<Log("info", "record saved")>> \o sent.op, minted,
                 TRUE, ModelInput(message), "saved", doc, sent.state, note)
        ELSE IF mongo = "pymongo_error"
        THEN Out(Resp(200, TRUE, "", AiResponse, session_id, conversation_id), sec,
                 op1 \o <<Log("error", "mongo save failed")>> \o sent.op, minted,
                 TRUE, ModelInput(message), "failed", doc, sent.state, note)
        ELSE \* only PyMongoError is caught at the insert
             Unexpected(sec, op1, minted, TRUE, ModelInput(message), "failed", doc)

\* CallModel with the record saved and the notification made before the model
\* has answered
CallModelSaving(session_id, conversation_id, message, sec, op, minted, model, mongo, tg) ==
    IF ~client
    THEN Early(ErrorResp(500, "OpenAI API key is not set"), sec,
               op \o <<Log("error", "OpenAI API key is not set")>>, minted)
    ELSE IF ~vector_store_ids
    THEN Early(ErrorResp(500, "VECTOR_STORE_IDS is not set, file search cannot be used"), sec,
               op \o <<Log("error", "VECTOR_STORE_IDS is not set")>>, minted)
    ELSE LET op1 == op \o <<Log("info", "openai call start")>>
         IN  IF model = "ok"
             THEN AfterModel(session_id, conversation_id, message, sec, op1, minted, mongo, tg)
             ELSE IF model = "openai_error"
             THEN Out(ErrorResp(500, "AI service has a problem"), sec,
                      op1 \o <<Log("error", "OpenAI API error")>>, minted,
                      TRUE, ModelInput(message), "saved",
                      Doc(session_id, conversation_id, message, <<>>), "sent",
                      Note(message, <<>>, session_id))
             ELSE Unexpected(sec, op1, minted, TRUE, ModelInput(message), "no", NoDoc)

\* from the check of the API key to the model call
CallModel(session_id, conversation_id, message, sec, op, minted, model, mongo, tg) ==
    IF ~client
    THEN Early(ErrorResp(500, "OpenAI API key is not set"), sec,
               op \o <<Log("error", "OpenAI API key is not set")>>, minted)
    ELSE IF ~vector_store_ids
    THEN Early(ErrorResp(500, "VECTOR_STORE_IDS is not set, file search cannot be used"), sec,
               op \o <<Log("error", "VECTOR_STORE_IDS is not set")>>, minted)
    ELSE LET op1 == op \o <<Log("info", "openai call start")>>
         IN  IF model = "ok"
             THEN AfterModel(session_id, conversation_id, message, sec, op1, minted, mongo, tg)
             ELSE IF model = "openai_error"
             THEN Out(ErrorResp(500, "AI service has a problem"), sec,
                      op1 \o <<Log("error", "OpenAI API error")>>, minted,
                      TRUE, ModelInput(message), "no", NoDoc, "no", NoNote)
             ELSE Unexpected(sec, op1, minted, TRUE, ModelInput(message), "no", NoDoc)

\* from detect_suspicious_pattern to the check of the message
CheckMessage(session_id, conversation_id, message, sec, minted, model, mongo, tg) ==
    LET suspicious == detect_suspicious_pattern(message)
        sec1 == sec \o (IF suspicious # "none" THEN <<suspicious>> ELSE <<>>)
        sec2 == sec1 \o (IF StrLen(message) > LongMessageLimit
                         THEN <<"abnormally long message">> ELSE <<>>)
    IN  IF message = <<>> \/ StripIsEmpty(message)
        THEN Early(ErrorResp(400, "Message is required and cannot be empty"),
                   sec2 \o <<"empty message">>, <<>>, minted)
        ELSE CallModel(session_id, conversation_id, message,
                       sec2 \o <<"normal request">>,
                       <<Log("info", "user message"), Log("info", "message length")>>,
                       minted, model, mongo, tg)

\* Extract with the conversation_id of the body used whenever the key is there
ExtractPresent(session_id, data, sec, fresh, model, mongo, tg) ==
    LET conversation_id == IF data.conversation_id.t # "absent"
                           THEN data.conversation_id ELSE Uuid(fresh)
        minted  == IF data.conversation_id.t # "absent" THEN 0 ELSE 1
        message == Or(data.message, JStr(<<>>))
    IN  IF message.t # "str"
        THEN \* re.search raises TypeError
             Unexpected(sec, <<>>, minted, FALSE, <<>>, "no", NoDoc)
        ELSE CheckMessage(session_id, conversation_id, message.s, sec, minted, model, mongo, tg)

\* data.get('conversation_id') or str(uuid.uuid4()); data.get('message') or ""
Extract(session_id, data, sec, fresh, model, mongo, tg) ==
    LET conversation_id == Or(data.conversation_id, Uuid(fresh))
        minted  == IF Truthy(data.conversation_id) THEN 0 ELSE 1
        message == Or(data.message, JStr(<<>>))
    IN  IF message.t # "str"
        THEN \* re.search raises TypeError
             Unexpected(sec, <<>>, minted, FALSE, <<>>, "no", NoDoc)
        ELSE CheckMessage(session_id, conversation_id, message.s, sec, minted, model, mongo, tg)

\* request.is_json, request.get_json(silent=True), data is None
Validate(session_id, content_type, body, sec, fresh, model, mongo, tg) ==
    IF content_type # JsonType
    THEN Early(ErrorResp(415, "Content-Type must be application/json"),
               sec \o <<"bad content type">>, <<>>, 0)
    ELSE IF body.kind \in {"invalid", "null"}
    THEN Early(ErrorResp(400, "Invalid JSON data"), sec \o <<"JSON parse failure">>, <<>>, 0)
    ELSE IF body.kind # "object"
    THEN \* data.get raises AttributeError
         Unexpected(sec, <<>>, 0, FALSE, <<>>, "no", NoDoc)
    ELSE Extract(session_id, body, sec, fresh, model, mongo, tg)

(***************************************************************************)
(* check_request_frequency, statement by statement.                        *)
(***************************************************************************)
\* Prune with <= for <
PruneInclusive(times, now) ==
    SelectSeq(times, LAMBDA req_time : now - req_time <= WindowSeconds)

\* the list comprehension: the times less than window_seconds before now
Prune(times, now) == SelectSeq(times, LAMBDA req_time : now - req_time < WindowSeconds)

\* request_counter[client_ip].append(now)
AppendNow(times, now) == Append(times, now)

\* len(request_counter[client_ip]) > threshold
OverThreshold(times) == Len(times) > Threshold

(***************************************************************************)
(* The threads.  pc is the thread's place: "idle", then inside             *)
(* check_request_frequency "filter" (before the list comprehension),       *)
(* "store" (before its result is assigned), "append", "count", then        *)
(* "handle" (before the Content-Type check) and "done" (the handler has    *)
(* returned: what came in and what went out is all there).  frequency is   *)
(* what check_request_frequency has returned: "unchecked" before it has,   *)
(* then "normal" (False) or "exceeded" (True).  ord numbers the requests   *)
(* of a client address in the order in which they append their time.       *)
(***************************************************************************)
NoOut == Early(ErrorResp(0, ""), <<>>, <<>>, 0)

IdleThread ==
    [pc |-> "idle", ip |-> "", x_session_id |-> JAbsent, session_id |-> JAbsent,
     now |-> 0, filtered |-> <<>>, frequency |-> "unchecked", sec |-> <<>>, ord |-> 0,
     content_type |-> "", body |-> Body("invalid", JAbsent, JAbsent),
     model |-> "unused", mongo |-> "unused", tg |-> "unused", out |-> NoOut]

At(t, place) == th[t].pc = place

Goto(t, place) == [th EXCEPT ![t].pc = place]

\* Receive with the frequency check left for later: the handler goes to its
\* Content-Type check at once
ReceiveUnchecked(t, peers, sessions, budget) ==
    /\ At(t, "idle")
    /\ received < budget
    /\ \E h \in peers, x \in sessions :
          LET client_ip == get_client_ip(h) IN
          /\ th' = [th EXCEPT ![t] =
                       [@ EXCEPT !.pc = "handle", !.ip = client_ip,
                                 !.x_session_id = x,
                                 !.session_id = Or(x, Uuid(uuids)),
                                 !.now = clock]]
          /\ uuids' = IF Truthy(x) THEN uuids ELSE uuids + 1
          /\ arrivals' = [arrivals EXCEPT ![client_ip] = @ + 1]
    /\ received' = received + 1
    /\ UNCHANGED <<request_counter, clock, config>>

\* send_message up to the first statement of check_request_frequency:
\* get_client_ip, the session id, now = datetime.now()
Receive(t, peers, sessions, budget) ==
    /\ At(t, "idle")
    /\ received < budget
    /\ \E h \in peers, x \in sessions :
          LET client_ip == get_client_ip(h) IN
          /\ th' = [th EXCEPT ![t] =
                       [@ EXCEPT !.pc = "filter", !.ip = client_ip,
                                 !.x_session_id = x,
                                 !.session_id = Or(x, Uuid(uuids)),
                                 !.now = clock]]
          /\ uuids' = IF Truthy(x) THEN uuids ELSE uuids + 1
          /\ arrivals' = [arrivals EXCEPT ![client_ip] = @ + 1]
    /\ received' = received + 1
    /\ UNCHANGED <<request_counter, clock, config>>

\* the list comprehension is evaluated
Filter(t) ==
    /\ At(t, "filter")
    /\ th' = [th EXCEPT ![t] =
                 [@ EXCEPT !.pc = "store",
                           !.filtered = Prune(request_counter[th[t].ip], th[t].now)]]
    /\ UNCHANGED <<request_counter, clock, uuids, config, received, arrivals>>

\* request_counter[client_ip] = ...
Store(t) ==
    /\ At(t, "store")
    /\ request_counter' = [request_counter EXCEPT ![th[t].ip] = th[t].filtered]
    /\ th' = [th EXCEPT ![t] = [@ EXCEPT !.pc = "append", !.filtered = <<>>]]
    /\ UNCHANGED <<clock, uuids, config, received, arrivals>>

\* how many requests of the client address have appended their time
Appended(ip) ==
    arrivals[ip] - Cardinality({t \in Threads : /\ th[t].ip = ip
                                                /\ th[t].pc \in {"filter", "store", "append"}})

\* request_counter[client_ip].append(now)
AppendTime(t) ==
    /\ At(t, "append")
    /\ request_counter' = [request_counter EXCEPT ![th[t].ip] = AppendNow(@, th[t].now)]
    /\ th' = [th EXCEPT ![t] = [@ EXCEPT !.pc = "count", !.ord = Appended(th[t].ip) + 1]]
    /\ UNCHANGED <<clock, uuids, config, received, arrivals>>

\* the comparison, the return, and the security event send_message logs
Count(t) ==
    /\ At(t, "count")
    /\ LET tripped == OverThreshold(request_counter[th[t].ip]) IN
       th' = [th EXCEPT ![t] =
                 [@ EXCEPT !.pc = "handle",
                           !.frequency = IF tripped THEN "exceeded" ELSE "normal",
                           !.sec = IF tripped THEN <<"abnormal request frequency">>
                                   ELSE <<>>]]
    /\ UNCHANGED <<request_counter, clock, uuids, config, received, arrivals>>

\* the rest of send_message, on one of the given requests
Process(t, requests) ==
    /\ At(t, "handle")
    /\ \E q \in requests :
       \E out \in {Validate(th[t].session_id, q.content_type, q.body, th[t].sec,
                            uuids, q.model, q.mongo, q.tg)} :
          /\ th' = [th EXCEPT ![t] =
                       [@ EXCEPT !.pc = "done",
                                 !.content_type = q.content_type,
                                 !.body = q.body,
                                 !.model = IF out.asked THEN q.model ELSE "unused",
                                 !.mongo = IF out.saved \in {"saved", "failed"}
                                           THEN q.mongo ELSE "unused",
                                 !.tg = IF out.notified \in {"sent", "failed"}
                                        THEN q.tg ELSE "unused",
                                 !.out = [out EXCEPT !.op = <<Log("info", "request")>> \o @]]]
          /\ uuids' = uuids + out.minted
    /\ UNCHANGED <<request_counter, clock, config, received, arrivals>>

\* the response has gone out; the thread is free again
Return(t) ==
    /\ At(t, "done")
    /\ th' = [th EXCEPT ![t] = IdleThread]
    /\ UNCHANGED <<request_counter, clock, uuids, config, received, arrivals>>

\* time passes
Tick(instants) ==
    /\ \E later \in instants : later > clock /\ clock' = later
    /\ UNCHANGED <<request_counter, uuids, config, th, received, arrivals>>

(***************************************************************************)
(* The requests the model sends.                                           *)
(***************************************************************************)
Abc == <<R("a", 1), R("b", 1), R("c", 1)>>
Hi  == <<R("h", 1), R("i", 1)>>

\* texts that match no pattern, by length and blankness
PlainMessages ==
    {Hi, <<R(" ", 3)>>, <<R(" ", 1), R("\n", 1), R("\t", 1)>>, <<R(" ", 6000)>>,
     <<R("a", 999)>>, <<R("a", 1000)>>, <<R("a", 1001)>>,
     <<R("a", 5000)>>, <<R("a", 5001)>>, <<R("a", 6000)>>,
     <<R("a", 600), R("b", 600), R("a", 4800)>>}

\* texts that match patterns: "x<script", "../<script", "eval(../",
\* "UNION  SELect", "union\nselect", "cat /etc/passwd", "..../" 6000 long
SuspectMessages ==
    {<<R("x", 1)>> \o LitScript,
     LitDotDot \o LitScript,
     LitEval \o LitDotDot,
     <<R("U", 1), R("N", 1), R("I", 1), R("O", 1), R("N", 1), R(" ", 2),
       R("S", 1), R("E", 1), R("L", 1), R("e", 1), R("c", 1), R("t", 1)>>,
     LitUnion \o <<R("\n", 1)>> \o LitSelect,
     <<R("c", 1), R("a", 1), R("t", 1), R(" ", 1)>> \o LitPasswd,
     <<R(".", 5999), R("/", 1)>>}

Messages == PlainMessages \cup SuspectMessages

\* the values of the body's message: a text, or missing, null, "", 0, 7
MessageValues ==
    {JStr(m) : m \in Messages} \cup {JAbsent, JNull, JStr(<<>>), JNum(0), JNum(7)}

\* the values of the body's conversation_id
ConversationIds == {JAbsent, JNull, JStr(<<>>), JStr(Abc), JNum(0), JNum(7)}

\* the values of the x-session-id header: missing, empty, "abc"
SessionHeaders == {JAbsent, JStr(<<>>), JStr(Abc)}

Bodies ==
    {Body("invalid", JAbsent, JAbsent), Body("null", JAbsent, JAbsent),
     Body("other", JAbsent, JAbsent)}
    \cup {Body("object", m, JStr(Abc)) : m \in MessageValues}
    \cup {Body("object", JStr(Hi), c) : c \in ConversationIds}
    \cup {Body("object", JAbsent, JAbsent)}

HiBody   == Body("object", JStr(Hi), JStr(Abc))
LongBody == Body("object", JStr(<<R("a", 600), R("b", 600), R("a", 4800)>>), JAbsent)

Req(content_type, body, model, mongo, tg) ==
    [content_type |-> content_type, body |-> body, model |-> model, mongo |-> mongo, tg |-> tg]

\* every body with collaborators that work, and two bodies with every
\* outcome of the collaborators; a Content-Type that is not JSON
Requests ==
    {Req(JsonType, b, "ok", "ok", "ok") : b \in Bodies}
    \cup {Req("text/plain", b, "ok", "ok", "ok") : b \in {HiBody, Body("invalid", JAbsent, JAbsent)}}
    \cup {Req(JsonType, b, mo, go, tg) :
            b \in {HiBody, LongBody}, mo \in ModelOutcomes,
            go \in MongoOutcomes, tg \in TelegramOutcomes}

\* the requests of RateSpec and SeqSpec
FewRequests ==
    {Req(JsonType, HiBody, "ok", "ok", "ok"),
     Req(JsonType, Body("invalid", JAbsent, JAbsent), "ok", "ok", "ok"),
     Req("text/plain", HiBody, "ok", "ok", "ok")}

Ip1 == "10.0.0.1"
Ip2 == "10.0.0.2"

\* a direct peer, one behind X-Real-IP, one behind X-Forwarded-For
Peers == {Peer(<<>>, "", Ip1), Peer(<<>>, Ip2, Ip1), Peer(<<Ip1, Ip2>>, Ip2, Ip2)}

(***************************************************************************)
(* Spec: one request after the other, every kind of request, every         *)
(* configuration.  What the handler does from its Content-Type check on    *)
(* depends on the request and the configuration alone.                     *)
(***************************************************************************)
Start ==
    /\ request_counter = [ip \in IPs |-> <<>>]
    /\ clock = 0
    /\ uuids = 0
    /\ th = [t \in Threads |-> IdleThread]
    /\ received = 0
    /\ arrivals = [ip \in IPs |-> 0]

Init ==
    /\ Start
    /\ client \in BOOLEAN
    /\ vector_store_ids \in BOOLEAN
    /\ mongo_collection \in BOOLEAN
    /\ telegram \in BOOLEAN

Next ==
    \/ \E t \in {"t1"} :
          \/ Receive(t, Peers, SessionHeaders, MaxRequests)
          \/ Filter(t)
          \/ Store(t)
          \/ AppendTime(t)
          \/ Count(t)
          \/ Process(t, Requests)
          \/ Return(t)
    \/ Tick({0, 1})

Spec == Init /\ [][Next]_vars

(***************************************************************************)
(* RateSpec: two threads serve the requests of one client address at the   *)
(* same time, all of them inside one window, with everything configured.   *)
(***************************************************************************)
Configured ==
    /\ client = TRUE
    /\ vector_store_ids = TRUE
    /\ mongo_collection = TRUE
    /\ telegram = TRUE

RateInit == Start /\ Configured

\* one client address, seen directly and behind a proxy
RatePeers == {Peer(<<>>, "", Ip1), Peer(<<Ip1, Ip2>>, "", Ip2)}

RateNext ==
    \/ \E t \in Threads :
          \/ Receive(t, RatePeers, {JStr(Abc)}, RateRequests)
          \/ Filter(t)
          \/ Store(t)
          \/ AppendTime(t)
          \/ Count(t)
          \/ Process(t, FewRequests)
          \/ Return(t)
    \/ Tick({0, 1})

RateSpec == RateInit /\ [][RateNext]_vars

(***************************************************************************)
(* SeqSpec: one call of check_request_frequency after the other, at times  *)
(* that lie up to two windows apart.                                       *)
(***************************************************************************)
SeqInstants == {0, 1, 60, 61}

SeqNext ==
    \/ \E t \in {"t1"} :
          \/ Receive(t, Peers, {JStr(Abc)}, SeqRequests)
          \/ Filter(t)
          \/ Store(t)
          \/ AppendTime(t)
          \/ Count(t)
          \/ Process(t, FewRequests)
          \/ Return(t)
    \/ Tick(SeqInstants)

SeqSpec == RateInit /\ [][SeqNext]_vars

(***************************************************************************)
(* Properties.                                                             *)
(***************************************************************************)
\* how often x occurs in the sequence
Occurrences(seq, x) == Cardinality({i \in 1..Len(seq) : seq[i] = x})

FrequencyEvent == "abnormal request frequency"

\* the security events a request carries when check_request_frequency returns
FrequencyEvents(t) ==
    IF th[t].frequency = "exceeded" THEN <<FrequencyEvent>> ELSE <<>>

\* no thread is inside check_request_frequency
NoCheckRunning == \A t \in Threads : th[t].pc \notin {"filter", "store", "append", "count"}

\* C1: for requests of one client inside one window, requests 1..10 carry no
\* frequency event, the 11th carries exactly one, and the response is what it
\* is without the frequency check.
C1_EleventhRequestIsFlagged ==
    \A t \in Threads :
        At(t, "done") /\ clock < WindowSeconds =>
            LET n == Occurrences(th[t].out.sec, FrequencyEvent) IN
            /\ th[t].ord <= Threshold => n = 0
            /\ th[t].ord = Threshold + 1 => n = 1
            /\ th[t].out.resp =
                   Validate(th[t].session_id, th[t].content_type, th[t].body, <<>>,
                            uuids, th[t].model, th[t].mongo, th[t].tg).resp

\* C2: calls of check_request_frequency that run at the same time lose no
\* time: once n calls for a client, all inside one window, have returned, its
\* list holds n times, and a call returns True exactly when it is one after
\* the first 10.
C2_NoTimestampLost ==
    clock < WindowSeconds =>
        /\ NoCheckRunning => \A ip \in IPs : Len(request_counter[ip]) = arrivals[ip]
        /\ \A t \in Threads :
              th[t].frequency # "unchecked" =>
                  (th[t].frequency = "exceeded" <=> th[t].ord > Threshold)

Rejected415(t) == At(t, "done") /\ th[t].out.resp.status = 415
RejectedJson(t) == At(t, "done") /\ th[t].out.resp.error = "Invalid JSON data"

\* C9, as amended: the frequency check comes first.  A request that is at
\* its Content-Type check or beyond has been through
\* check_request_frequency, and a request rejected with 415 or for
\* malformed JSON carries the frequency event, ahead of the event of its
\* rejection, exactly when that check returned True.
C9_FrequencyCheckedFirst ==
    \A t \in Threads :
        /\ th[t].pc \in {"handle", "done"} => th[t].frequency # "unchecked"
        /\ Rejected415(t) =>
              th[t].out.sec = FrequencyEvents(t) \o <<"bad content type">>
        /\ RejectedJson(t) =>
              th[t].out.sec = FrequencyEvents(t) \o <<"JSON parse failure">>

\* a request over the threshold is rejected with 415
C9_Witness ==
    \E t \in Threads : Rejected415(t) /\ th[t].frequency = "exceeded"

\* C9: the frequency check runs after the Content-Type check, the JSON
\* parse and the field extraction, so a request rejected with 415 or for
\* malformed JSON carries no frequency event and leaves the client's list as
\* it was (empty, when it is the client's first request).
C9_RejectedLeavesWindow ==
    \A t \in Threads :
        Rejected415(t) \/ RejectedJson(t) =>
            /\ Occurrences(th[t].out.sec, FrequencyEvent) = 0
            /\ arrivals[th[t].ip] = 1 => request_counter[th[t].ip] = <<>>

\* the times of the list that the call keeps, oldest first: those less than
\* window_seconds before now
RECURSIVE Kept(_, _)
Kept(times, now) ==
    IF times = <<>> THEN <<>>
    ELSE (IF now - Head(times) >= WindowSeconds THEN <<>> ELSE <<Head(times)>>)
         \o Kept(Tail(times), now)

\* the times that are not older than window_seconds
RECURSIVE NotOlder(_, _)
NotOlder(times, now) ==
    IF times = <<>> THEN <<>>
    ELSE (IF now - Head(times) > WindowSeconds THEN <<>> ELSE <<Head(times)>>)
         \o NotOlder(Tail(times), now)

\* thread t takes the step from place a to place b
Steps(t, a, b) == th[t].pc = a /\ th'[t].pc = b

\* what a call of check_request_frequency does to the lists, but for the
\* entries it keeps: the other clients' lists stay, now is appended after
\* the kept entries, all of which are then less than window_seconds old, and
\* the call returns True exactly when the list is longer than threshold
CallBut(t) ==
    LET ip == th[t].ip  now == th[t].now IN
    /\ \A other \in IPs \ {ip} : request_counter'[other] = request_counter[other]
    /\ Steps(t, "append", "count") =>
          /\ request_counter'[ip] = request_counter[ip] \o <<now>>
          /\ \A i \in 1..Len(request_counter'[ip]) :
                now - request_counter'[ip][i] < WindowSeconds
    /\ Steps(t, "count", "handle") =>
          /\ request_counter'[ip] = request_counter[ip]
          /\ th'[t].frequency = "exceeded" <=> Len(request_counter[ip]) > Threshold

\* C10, as amended: with a clock that does not go back, a call
\* check(ip, now) leaves ip's list equal to its previous entries that are
\* less than windowSeconds old (an entry is removed when it is windowSeconds
\* old or older), in order, followed by now; the prune comes before the
\* append and the count, the call returns True exactly when the resulting
\* length exceeds threshold, and every stored time is then less than
\* windowSeconds before now.
C10_PruneAppendCount ==
    [][\A t \in {"t1"} :
          /\ CallBut(t)
          /\ Steps(t, "store", "append") =>
                request_counter'[th[t].ip] = Kept(request_counter[th[t].ip], th[t].now)
      ]_vars

\* a call has dropped an entry and returns True
C10_Witness ==
    /\ At("t1", "handle")
    /\ th["t1"].frequency = "exceeded"
    /\ Len(request_counter[th["t1"].ip]) < arrivals[th["t1"].ip]

\* C10: as above, but an entry is removed only if it is older than
\* windowSeconds.
C10_RemovedOnlyIfOlder ==
    [][\A t \in {"t1"} :
          /\ CallBut(t)
          /\ Steps(t, "store", "append") =>
                request_counter'[th[t].ip] = NotOlder(request_counter[th[t].ip], th[t].now)
      ]_vars

(***************************************************************************)
(* Properties of the handler's answer, over the requests that are done.    *)
(***************************************************************************)
\* the security events that are warnings
Warnings(sec) == SelectSeq(sec, LAMBDA e : e # "normal request")

\* the error lines of the operational log
Errors(op) == SelectSeq(op, LAMBDA l : l.level = "error")

\* the body has no message, an empty one or one of whitespace only
MessageMissing(body) ==
    \/ body.message.t = "absent"
    \/ body.message.t = "str" /\ StripIsEmpty(body.message.s)

\* C3: a request that fails validation is rejected with its status and a
\* security event, and the model is not called: 415 for a Content-Type that
\* is not JSON, 400 for a body that does not parse, and, for every body that
\* parses, 400 for a message that is absent, empty or whitespace-only.
C3_InvalidIsRejected ==
    \A t \in Threads :
        At(t, "done") =>
            LET q == th[t]
                rejected(status) ==
                    /\ q.out.resp.status = status
                    /\ q.out.resp.ok = FALSE
                    /\ Len(Warnings(q.out.sec)) >= 1
                    /\ ~q.out.asked
            IN  /\ q.content_type # JsonType => rejected(415)
                /\ q.content_type = JsonType /\ q.body.kind = "invalid" => rejected(400)
                /\ q.content_type = JsonType /\ q.body.kind # "invalid" /\ MessageMissing(q.body)
                      => rejected(400)

\* the request's save or notification failed
SideEffectsFailed(t) ==
    (IF th[t].mongo \in {"pymongo_error", "other_exception"} THEN 1 ELSE 0)
    + (IF th[t].tg \in {"request_exception", "other_exception"} THEN 1 ELSE 0)

\* C4: when the model has answered and the save fails with whatever error,
\* or the notification fails, the response is still the 200 with the model's
\* answer and the resolved identifiers, and one error line is logged for
\* each failure.
C4_SideEffectFailureIsHidden ==
    \A t \in Threads :
        At(t, "done") /\ th[t].model = "ok" /\ SideEffectsFailed(t) > 0 =>
            /\ th[t].out.resp.status = 200
            /\ th[t].out.resp.response = AiResponse
            /\ th[t].out.resp.session_id = th[t].session_id
            /\ Truthy(th[t].out.resp.conversation_id)
            /\ Len(Errors(th[t].out.op)) = SideEffectsFailed(t)

\* C5: a document is handed to the store and a notification is made only in
\* a request whose model call has returned: a request that is rejected, that
\* meets a configuration error or whose model call raises is answered with
\* 400, 415 or 500, and nothing is saved or notified.
C5_SideEffectsOnlyAfterModel ==
    \A t \in Threads :
        At(t, "done") =>
            LET o == th[t].out
                nothing == o.saved = "no" /\ o.doc = NoDoc /\ o.notified = "no" /\ o.note = NoNote
            IN  /\ ~o.asked \/ th[t].model # "ok" =>
                      o.resp.status \in {400, 415, 500} /\ nothing
                /\ ~nothing => o.asked /\ th[t].model = "ok"

\* the model call raises while the store and the notification are set up
C5_Witness ==
    \E t \in Threads :
        /\ At(t, "done")
        /\ th[t].model = "openai_error"
        /\ th[t].out.resp.status = 500
        /\ mongo_collection /\ telegram

\* the error texts that say nothing of the server's inside
GenericErrors == {"Internal server error", "AI service has a problem"}

\* C6: every 500 carries a generic error text only, never one that tells
\* which setting is missing.
C6_GenericServerErrors ==
    \A t \in Threads :
        At(t, "done") /\ th[t].out.resp.status = 500 =>
            th[t].out.resp.error \in GenericErrors

\* p is the first k characters of s
FirstOf(p, s, k) ==
    /\ StrLen(p) = k
    /\ Len(p) <= Len(s)
    /\ \A i \in 1..Len(p) :
          /\ p[i].c = s[i].c
          /\ IF i < Len(p) THEN p[i].n = s[i].n ELSE p[i].n <= s[i].n

\* the message of the request, when it is a text that is not blank
Worded(t) ==
    /\ At(t, "done")
    /\ th[t].content_type = JsonType
    /\ th[t].body.kind = "object"
    /\ th[t].body.message.t = "str"
    /\ ~StripIsEmpty(th[t].body.message.s)

\* C7: a message of more than 5000 characters that is not blank is not
\* rejected; it gets one event "abnormally long message", the model is given
\* its first 1000 characters, and the store and the notification are handed
\* the whole message.  Of a message of at most 1000 characters the model is
\* given the whole.
C7_LongMessageIsCutForModel ==
    \A t \in Threads :
        Worded(t) =>
            LET m == th[t].body.message.s
                o == th[t].out
            IN  /\ StrLen(m) > LongMessageLimit =>
                      /\ o.resp.status \notin {400, 413, 415}
                      /\ Occurrences(o.sec, "abnormally long message") = 1
                      /\ Occurrences(o.sec, "normal request") = 1
                      /\ o.asked => FirstOf(o.model_input, m, ModelInputLimit)
                /\ o.saved \in {"saved", "failed"} => o.doc.message = m
                /\ o.notified # "no" => o.note.user_message = m
                /\ StrLen(m) <= ModelInputLimit /\ o.asked => o.model_input = m

\* a message of 6000 characters is answered, saved and notified
C7_Witness ==
    \E t \in Threads :
        /\ Worded(t)
        /\ th[t].body.message.s = <<R("a", 600), R("b", 600), R("a", 4800)>>
        /\ th[t].out.resp.status = 200
        /\ th[t].out.model_input = <<R("a", 600), R("b", 400)>>
        /\ th[t].out.saved = "saved"
        /\ th[t].out.notified = "sent"

\* v is an identifier of the server's making that has been drawn already
Minted(v) == v.t = "uuid" /\ v.n < uuids

\* an identifier that a step has minted is one that no step has drawn before
Drawn(old, new, before, after) ==
    new # old /\ new.t = "uuid" => before <= new.n /\ new.n < after

\* the identifiers of the request that is done
Resolved(t) ==
        At(t, "done") =>
            LET q == th[t]
                r == q.out.resp
            IN  /\ IF Truthy(q.x_session_id)
                   THEN q.session_id = q.x_session_id
                   ELSE Minted(q.session_id)
                /\ r.status = 200 =>
                      /\ r.session_id = q.session_id
                      /\ IF Truthy(q.body.conversation_id)
                         THEN r.conversation_id = q.body.conversation_id
                         ELSE Minted(r.conversation_id)
                      /\ r.conversation_id # r.session_id \/ ~Minted(r.session_id)
                      /\ q.out.saved \in {"saved", "failed"} =>
                            /\ q.out.doc.session_id = r.session_id
                            /\ q.out.doc.conversation_id = r.conversation_id

\* C8: the two identifiers are resolved one without the other.  An
\* x-session-id header that is not empty is the session_id, otherwise the
\* session_id is minted.  A conversation_id of the body that is truthy (a text
\* that is not empty, a number that is not 0) is the conversation_id of the
\* response, otherwise (key missing, null, "", 0) it is minted.  The minted
\* identifiers of a request differ from one another and from every one drawn
\* before, and the record holds the identifiers of the 200 response.
C8_IdentifiersResolved ==
    /\ [](\A t \in Threads : Resolved(t))
    /\ [][\A t \in Threads :
            /\ Drawn(th[t].session_id, th'[t].session_id, uuids, uuids')
            /\ Drawn(th[t].out.resp.conversation_id, th'[t].out.resp.conversation_id,
                     uuids, uuids')]_vars

\* a request with the conversation_id "" and no header is answered and saved
\* under two minted identifiers
C8_Witness ==
    \E t \in Threads :
        /\ At(t, "done")
        /\ th[t].out.resp.status = 200
        /\ th[t].x_session_id = JAbsent
        /\ th[t].body.conversation_id = JStr(<<>>)
        /\ Minted(th[t].out.resp.conversation_id)
        /\ Minted(th[t].out.resp.session_id)
        /\ th[t].out.saved = "saved"

\* C8 as stated: a conversation_id that is present in the body is the
\* conversation_id of the response
C8_PresentIsReturned ==
    \A t \in Threads :
        At(t, "done") /\ th[t].out.resp.status = 200
            /\ th[t].body.conversation_id.t \in {"str", "num"}
        => th[t].out.resp.conversation_id = th[t].body.conversation_id
====
